---- MODULE Spec2Model ----
\* IronClaw gateway: the /run orchestrator (gateway/src/main.rs), the planner
\* adapter (core/src/llm.rs), the tool registry (core/src/registry.rs) and the
\* Wasmtime runtime (core/src/runtime.rs), as one state machine.
EXTENDS Integers, Sequences, FiniteSets, TLC

\* ---------------------------------------------------------------- bounds
\* Number of /run requests the model lets arrive (each may overlap the others).
MaxReq == 2
\* Fuel a guest burns in one scheduling slice of the model.
FuelStep == 4000000

\* ------------------------------------------------------ program constants
\* store.set_fuel(10_000_000)
FuelBudget == 10000000

Requests == 1..MaxReq

\* ------------------------------------------------------- Option / Result
Some(x) == [some |-> TRUE, v |-> x]
None == [some |-> FALSE]
Ok(x) == [ok |-> TRUE, v |-> x]
Err(e) == [ok |-> FALSE, e |-> e]

\* Option::unwrap_or
unwrap_or(opt, d) == IF opt.some THEN opt.v ELSE d

\* ------------------------------------------------------ serde_json::Value
JNull == [type |-> "null"]
JString(s) == [type |-> "string", s |-> s]
JNumber(n) == [type |-> "number", n |-> n]
\* an object is its list of <<key, value>> members
JObject(members) == [type |-> "object", fields |-> members]

\* Value::index by a string key: Null unless an object holding the key
Index(v, key) ==
  IF v.type = "object" /\ \E i \in DOMAIN v.fields : v.fields[i][1] = key
  THEN v.fields[CHOOSE i \in DOMAIN v.fields : v.fields[i][1] = key][2]
  ELSE JNull

\* Value::as_str
as_str(v) == IF v.type = "string" THEN Some(v.s) ELSE None

\* The argument texts the planner service is made to send in this model.
HelloArgs == "{\"input\":\"Hello\"}"
EmptyObjectArgs == "{}"
NumberArgs == "{\"input\":5}"
GarbageArgs == "not json"

\* serde_json::from_str::<Value> on the argument texts above
from_str(s) ==
  CASE s = HelloArgs -> Ok(JObject(<< <<"input", JString("Hello")>> >>))
    [] s = EmptyObjectArgs -> Ok(JObject(<< >>))
    [] s = NumberArgs -> Ok(JObject(<< <<"input", JNumber(5)>> >>))
    [] OTHER -> Err("expected value")

\* Result::unwrap_or_default for Value (Value::default() is Null)
unwrap_or_default(res) == IF res.ok THEN res.v ELSE JNull

\* ----------------------------------------------------------- the registry
ToolRecord(n, path, h) ==
  [name |-> n, description |-> "tool", binary_path |-> path, handler |-> h,
   parameters |-> "schema"]

\* tools/tools.json as deployed in this model: an echo tool, a tool that never
\* returns, a tool that aborts and whose record names a handler its component
\* does not export, a component that exports its handler `main` and no `run`,
\* and a tool registered before its binary exists.
MainCatalog ==
  << ToolRecord("ironclaw_echo", "tools/echo.wasm", "run"),
     ToolRecord("spin", "tools/spin.wasm", "run"),
     ToolRecord("crash", "tools/crash.wasm", "process"),
     ToolRecord("legacy", "tools/legacy.wasm", "main"),
     ToolRecord("draft", "tools/draft.wasm", "run") >>

\* What Registry::load may find at tools/tools.json.
CatalogSources ==
  { [readable |-> FALSE, parsed |-> Err("io")],
    [readable |-> TRUE, parsed |-> Err("parse")],
    [readable |-> TRUE, parsed |-> Ok(MainCatalog)] }

\* A tools.json that registers one name twice, with different binaries.
DuplicateCatalog ==
  << ToolRecord("ironclaw_echo", "tools/echo.wasm", "run"),
     ToolRecord("ironclaw_echo", "tools/crash.wasm", "run"),
     ToolRecord("draft", "tools/draft.wasm", "run") >>

\* Every tools.json of this model, the one with the repeated name included.
AllCatalogSources ==
  CatalogSources \cup { [readable |-> TRUE, parsed |-> Ok(DuplicateCatalog)],
                        [readable |-> TRUE, parsed |-> Ok(<< >>)] }

\* The component files on disk: whether Component::from_file can load the
\* path, the functions the component exports, what the guest does when run and
\* how much fuel it needs before it returns or aborts.
Disk(path) ==
  CASE path = "tools/echo.wasm" ->
         [exists |-> TRUE, exports |-> {"run"}, kind |-> "echo", work |-> 6000000]
    [] path = "tools/spin.wasm" ->
         [exists |-> TRUE, exports |-> {"run"}, kind |-> "loop", work |-> 0]
    [] path = "tools/crash.wasm" ->
         [exists |-> TRUE, exports |-> {"run"}, kind |-> "abort", work |-> 2000000]
    [] path = "tools/legacy.wasm" ->
         [exists |-> TRUE, exports |-> {"main"}, kind |-> "echo", work |-> 6000000]
    [] OTHER ->
         [exists |-> FALSE, exports |-> {}, kind |-> "none", work |-> 0]

\* Registry::load: read, parse; the missing-binary check only warns.
RegistryLoadDeployedOnly(src) ==
  IF ~src.readable THEN Err("Failed to read registry")
  ELSE IF ~src.parsed.ok THEN Err("parse error")
  ELSE LET deployed(t) == Disk(t.binary_path).exists
       IN Ok(SelectSeq(src.parsed.v, deployed))

RegistryLoad(src) ==
  IF ~src.readable THEN Err("Failed to read registry")
  ELSE IF ~src.parsed.ok THEN Err("parse error")
  ELSE Ok(src.parsed.v)

\* registry.iter().find(|t| t.name == function_name): the first match
FindMutant(reg, name) ==
  IF \E i \in DOMAIN reg : reg[i].name = name
  THEN Some(reg[CHOOSE i \in DOMAIN reg :
                  /\ reg[i].name = name
                  /\ \A j \in DOMAIN reg : reg[j].name = name => i <= j])
  ELSE IF reg # << >> THEN Some(reg[1]) ELSE None

Find(reg, name) ==
  IF \E i \in DOMAIN reg : reg[i].name = name
  THEN Some(reg[CHOOSE i \in DOMAIN reg :
                  /\ reg[i].name = name
                  /\ \A j \in DOMAIN reg : reg[j].name = name => i <= j])
  ELSE None

\* ------------------------------------------------------------ the planner
\* Brain::plan step 1: the tools handed to the service, by name
OfferedNames(tools) == { tools[i].name : i \in DOMAIN tools }

\* async_openai ChatCompletionMessageToolCall
Call(n, a) == [id |-> "call_1", function |-> [name |-> n, arguments |-> a]]

\* a chat choice with its message.tool_calls
Choice(tc) == [tool_calls |-> tc]

\* What the chat service may answer to one plan() call.
OracleReplies ==
  { Err("transport"),
    Err("deserialize"),
    Ok(<< >>),
    Ok(<< Choice(None) >>),
    Ok(<< Choice(Some(<< >>)) >>),
    Ok(<< Choice(Some(<< Call("ironclaw_echo", HelloArgs) >>)) >>),
    Ok(<< Choice(Some(<< Call("ironclaw_echo", GarbageArgs) >>)) >>),
    Ok(<< Choice(Some(<< Call("ironclaw_echo", EmptyObjectArgs) >>)) >>),
    Ok(<< Choice(Some(<< Call("ironclaw_echo", NumberArgs) >>)) >>),
    Ok(<< Choice(Some(<< Call("ghost_tool", EmptyObjectArgs) >>)) >>),
    Ok(<< Choice(Some(<< Call("spin", HelloArgs) >>)) >>),
    Ok(<< Choice(Some(<< Call("crash", HelloArgs) >>)) >>),
    Ok(<< Choice(Some(<< Call("legacy", HelloArgs) >>)) >>),
    Ok(<< Choice(Some(<< Call("draft", HelloArgs) >>)) >>),
    Ok(<< Choice(Some(<< Call("ironclaw_echo", HelloArgs),
                         Call("spin", HelloArgs) >>)) >> ) }

\* serde_json::to_value(first_call)
to_value(call) ==
  JObject(<< <<"id", JString(call.id)>>,
             <<"type", JString("function")>>,
             <<"function", JObject(<< <<"name", JString(call.function.name)>>,
                                      <<"arguments", JString(call.function.arguments)>> >>)>> >>)

\* Brain::plan after the service answered: Err, a panic on choices[0], Ok(None)
\* or Ok(Some(first tool call as JSON)).
PlanSwallowsError(reply) ==
  IF ~reply.ok THEN [tag |-> "Ok", v |-> None]
  ELSE IF Len(reply.v) = 0 THEN [tag |-> "Panic"]
  ELSE LET tc == reply.v[1].tool_calls IN
       IF tc.some /\ Len(tc.v) > 0
       THEN [tag |-> "Ok", v |-> Some(to_value(tc.v[1]))]
       ELSE [tag |-> "Ok", v |-> None]

PlanTakesLast(reply) ==
  IF ~reply.ok THEN [tag |-> "Err", e |-> reply.e]
  ELSE IF Len(reply.v) = 0 THEN [tag |-> "Panic"]
  ELSE LET tc == reply.v[1].tool_calls IN
       IF tc.some /\ Len(tc.v) > 0
       THEN [tag |-> "Ok", v |-> Some(to_value(tc.v[Len(tc.v)]))]
       ELSE [tag |-> "Ok", v |-> None]

PlanDefaultsToFirstTool(reply) ==
  IF ~reply.ok THEN [tag |-> "Err", e |-> reply.e]
  ELSE IF Len(reply.v) = 0 THEN [tag |-> "Panic"]
  ELSE LET tc == reply.v[1].tool_calls IN
       IF tc.some /\ Len(tc.v) > 0
       THEN [tag |-> "Ok", v |-> Some(to_value(tc.v[1]))]
       ELSE [tag |-> "Ok", v |-> Some(to_value(Call("ironclaw_echo", EmptyObjectArgs)))]

Plan(reply) ==
  IF ~reply.ok THEN [tag |-> "Err", e |-> reply.e]
  ELSE IF Len(reply.v) = 0 THEN [tag |-> "Panic"]
  ELSE LET tc == reply.v[1].tool_calls IN
       IF tc.some /\ Len(tc.v) > 0
       THEN [tag |-> "Ok", v |-> Some(to_value(tc.v[1]))]
       ELSE [tag |-> "Ok", v |-> None]

\* submit_run: tool_call_json["function"]["name"].as_str().unwrap_or("unknown")
FunctionName(tool_call_json) ==
  unwrap_or(as_str(Index(Index(tool_call_json, "function"), "name")), "unknown")

\* submit_run: tool_call_json["function"]["arguments"].as_str().unwrap_or("{}")
ArgumentsStr(tool_call_json) ==
  unwrap_or(as_str(Index(Index(tool_call_json, "function"), "arguments")), "{}")

\* submit_run: args_obj["input"].as_str().unwrap_or("")
InputVal(arguments_str) ==
  unwrap_or(as_str(Index(unwrap_or_default(from_str(arguments_str)), "input")), "")

\* ------------------------------------------------------------ the runtime
\* The function the generated bindings call on the instance: tool.call_run.
EntryPoint == "run"

\* tools/src/lib.rs, Guest::run
GuestRun(input) == << "(Guest) IronClaw processed: '", input, "'" >>

\* The Store an invocation of run_tool works on: a local of that call.
SharedStore(r) == 1

StoreOf(r) == r

\* Fuel left in a store after the guest burnt `slice` (consume_fuel(true)).
ChargeNothing(left, slice) == left

Charge(left, slice) == left - slice

\* ------------------------------------------------------------- responses
RunResponse(id, st) == [job_id |-> id, status |-> st]

SuccessResponseRewrites(output) == RunResponse("ai-exec-success", << "Tool executed" >>)

SuccessResponse(output) == RunResponse("ai-exec-success", output)
FailedResponse(e) == RunResponse("ai-exec-failed", << "Runtime Error: ", e >>)
HallucinationResponse(function_name) ==
  RunResponse("err-hallucination", << "Error: Tool '", function_name, "' not found" >>)
ChatOnlyResponse ==
  RunResponse("chat-only",
    << "I understood your request, but I don't need to run any tools to answer it." >>)
BrainErrorResponse == RunResponse("err-brain", << "Internal AI Error" >>)

\* -------------------------------------------------------------- the state
VARIABLES
  phase,     \* main(): "start", "brain", "registry", "serving" or "exited"
  registry,  \* AppState.registry
  req,       \* one record per /run request: the handler's locals and what it did
  fuel       \* fuel left in each Store

vars == << phase, registry, req, fuel >>

\* RunRequest bodies the clients send: the `tools` allow-list names one tool or
\* every registered tool.
ToolDef(n) == [name |-> n, description |-> "tool", parameters |-> "schema"]

Payloads ==
  { [tenant_id |-> "t1", task |-> "say hello", tools |-> << ToolDef("ironclaw_echo") >>],
    [tenant_id |-> "t1", task |-> "say hello",
     tools |-> << ToolDef("ironclaw_echo"), ToolDef("spin"), ToolDef("crash"),
                  ToolDef("legacy"), ToolDef("draft") >>] }

NoPayload == [tenant_id |-> "", task |-> "", tools |-> << >>]
NoExec ==
  [stage |-> "none", binary_path |-> "", input |-> "", work |-> 0, entry |-> ""]

IdleRequest ==
  [pc |-> "Idle", payload |-> NoPayload, offered |-> {}, reply |-> None,
   plan |-> None, exec |-> NoExec, outcome |-> None, responses |-> << >>,
   oracleCalls |-> 0, lookups |-> 0, engineCalls |-> 0]

Init ==
  /\ phase = "start"
  /\ registry = << >>
  /\ req = [r \in Requests |-> IdleRequest]
  /\ fuel = [s \in Requests |-> 0]

\* ------------------------------------------------------------------ main
\* main step 3: Brain::new and the say_hello connectivity check
InitBrain ==
  /\ phase = "start"
  /\ \E b \in {"ok", "no_api_key", "hello_error", "hello_no_choices"} :
       phase' = IF b \in {"ok", "hello_error"} THEN "brain" ELSE "exited"
  /\ UNCHANGED << registry, req, fuel >>

\* main step 4: Registry::load().await.expect(..)
LoadOrDefault(sources) ==
  /\ phase = "brain"
  /\ \E src \in sources :
       LET res == RegistryLoad(src) IN
       /\ registry' = IF res.ok THEN res.v ELSE << >>
       /\ phase' = "registry"
  /\ UNCHANGED << req, fuel >>

Load(sources) ==
  /\ phase = "brain"
  /\ \E src \in sources :
       LET res == RegistryLoad(src) IN
       IF res.ok
       THEN /\ registry' = res.v
            /\ phase' = "registry"
       ELSE /\ registry' = registry
            /\ phase' = "exited"
  /\ UNCHANGED << req, fuel >>

LoadRegistry == Load(CatalogSources)

\* main steps 5-8: Runtime::new, the router, TcpListener::bind, axum::serve
ServeWithEmptyRegistry ==
  /\ phase = "registry"
  /\ \E bound \in BOOLEAN : phase' = IF bound THEN "serving" ELSE "exited"
  /\ registry' = << >>
  /\ UNCHANGED << req, fuel >>

Serve ==
  /\ phase = "registry"
  /\ \E bound \in BOOLEAN : phase' = IF bound THEN "serving" ELSE "exited"
  /\ UNCHANGED << registry, req, fuel >>

\* ------------------------------------------------------------ submit_run
\* The handler ends by returning Json(resp).
Respond(rq, resp) == [rq EXCEPT !.pc = "Responding", !.responses = Append(@, resp)]

\* submit_run up to the await inside Brain::plan: the tools handed to the
\* planner are state.registry.
SubmitRun(r) ==
  /\ phase = "serving"
  /\ req[r].pc = "Idle"
  /\ \E p \in Payloads :
       req' = [req EXCEPT ![r] =
                 [@ EXCEPT !.pc = "Planning", !.payload = p,
                           !.offered = OfferedNames(registry),
                           !.oracleCalls = @ + 1]]
  /\ UNCHANGED << phase, registry, fuel >>

\* run_tool from its start to the await on instantiate_async: a new Store with
\* its fuel, then Component::from_file.
StartToolRetries(rq, binary_path, input_val) ==
  LET called == [rq EXCEPT !.engineCalls = @ + 1,
                           !.exec = [stage |-> "instantiate", binary_path |-> binary_path,
                                     input |-> input_val, work |-> Disk(binary_path).work,
                                     entry |-> ""]]
  IN
  IF Disk(binary_path).exists
  THEN [called EXCEPT !.pc = "Executing"]
  ELSE Respond([called EXCEPT !.outcome = Some(Err("ComponentLoad")),
                              !.engineCalls = @ + 1],
               FailedResponse("ComponentLoad"))

StartTool(rq, binary_path, input_val) ==
  LET called == [rq EXCEPT !.engineCalls = @ + 1,
                           !.exec = [stage |-> "instantiate", binary_path |-> binary_path,
                                     input |-> input_val, work |-> Disk(binary_path).work,
                                     entry |-> ""]]
  IN
  IF Disk(binary_path).exists
  THEN [called EXCEPT !.pc = "Executing"]
  ELSE Respond([called EXCEPT !.outcome = Some(Err("ComponentLoad"))],
               FailedResponse("ComponentLoad"))

\* The chat service answers: the rest of Brain::plan, then submit_run's match
\* down to the await inside run_tool.
Answer(r, replies) ==
  /\ phase = "serving"
  /\ req[r].pc = "Planning"
  /\ \E reply \in replies :
       LET got == [req[r] EXCEPT !.reply = Some(reply)]
           plan_result == Plan(reply)
       IN
       IF plan_result.tag = "Panic"
       THEN /\ req' = [req EXCEPT ![r] = [got EXCEPT !.pc = "Aborted"]]
            /\ fuel' = fuel
       ELSE IF plan_result.tag = "Err"
       THEN /\ req' = [req EXCEPT ![r] = Respond(got, BrainErrorResponse)]
            /\ fuel' = fuel
       ELSE IF ~plan_result.v.some
       THEN /\ req' = [req EXCEPT ![r] = Respond(got, ChatOnlyResponse)]
            /\ fuel' = fuel
       ELSE LET tool_call_json == plan_result.v.v
                function_name == FunctionName(tool_call_json)
                arguments_str == ArgumentsStr(tool_call_json)
                found == Find(registry, function_name)
                looked == [got EXCEPT !.plan = Some([name |-> function_name,
                                                     arguments |-> arguments_str]),
                                      !.lookups = @ + 1]
            IN
            IF found.some
            THEN /\ req' = [req EXCEPT ![r] =
                              StartTool(looked, found.v.binary_path,
                                        InputVal(arguments_str))]
                 /\ fuel' = [fuel EXCEPT ![StoreOf(r)] = FuelBudget]
            ELSE /\ req' = [req EXCEPT ![r] =
                              Respond(looked, HallucinationResponse(function_name))]
                 /\ fuel' = fuel
  /\ UNCHANGED << phase, registry >>

OracleAnswers(r) == Answer(r, OracleReplies)

\* Tool::instantiate_async completes: fails when the component does not export
\* `run`, otherwise call_run starts. The record's handler is not consulted:
\* run_tool receives the binary path and the input only.
Instantiate(r) ==
  /\ req[r].pc = "Executing"
  /\ req[r].exec.stage = "instantiate"
  /\ IF EntryPoint \in Disk(req[r].exec.binary_path).exports
     THEN req' = [req EXCEPT ![r].exec.stage = "run", ![r].exec.entry = EntryPoint]
     ELSE req' = [req EXCEPT ![r] =
                    Respond([@ EXCEPT !.outcome = Some(Err("Instantiate"))],
                            FailedResponse("Instantiate"))]
  /\ UNCHANGED << phase, registry, fuel >>

\* The guest runs one slice inside call_run: it burns fuel, and it traps when
\* the store has less fuel than the slice needs; after its last slice it
\* returns its output or aborts.
GuestStep(r) ==
  /\ req[r].pc = "Executing"
  /\ req[r].exec.stage = "run"
  /\ LET art == Disk(req[r].exec.binary_path)
         s == StoreOf(r)
         slice == IF art.kind = "loop" \/ req[r].exec.work > FuelStep
                  THEN FuelStep ELSE req[r].exec.work
         rest == IF art.kind = "loop" THEN 0 ELSE req[r].exec.work - slice
     IN
     IF slice > fuel[s]
     THEN /\ fuel' = [fuel EXCEPT ![s] = 0]
          /\ req' = [req EXCEPT ![r] =
                       Respond([@ EXCEPT !.outcome = Some(Err("OutOfFuel"))],
                               FailedResponse("OutOfFuel"))]
     ELSE /\ fuel' = [fuel EXCEPT ![s] = Charge(fuel[s], slice)]
          /\ IF art.kind = "loop" \/ rest > 0
             THEN req' = [req EXCEPT ![r].exec.work = rest]
             ELSE IF art.kind = "abort"
             THEN req' = [req EXCEPT ![r] =
                            Respond([@ EXCEPT !.outcome = Some(Err("GuestTrap"))],
                                    FailedResponse("GuestTrap"))]
             ELSE req' = [req EXCEPT ![r] =
                            Respond([@ EXCEPT !.outcome =
                                       Some(Ok(GuestRun(req[r].exec.input)))],
                                    SuccessResponse(GuestRun(req[r].exec.input)))]
  /\ UNCHANGED << phase, registry >>

Next ==
  \/ InitBrain
  \/ LoadRegistry
  \/ Serve
  \/ \E r \in Requests : SubmitRun(r)
  \/ \E r \in Requests : OracleAnswers(r)
  \/ \E r \in Requests : Instantiate(r)
  \/ \E r \in Requests : GuestStep(r)

Spec == Init /\ [][Next]_vars

\* The specification for what run_tool guarantees over time: the chat service
\* gives one answer of each kind (a failure, no tool, an unknown tool, and each
\* registered tool with well-formed arguments), and the async runtime keeps
\* polling a tool invocation that can make progress.
EngineReplies ==
  { Err("transport"),
    Ok(<< Choice(None) >>),
    Ok(<< Choice(Some(<< Call("ghost_tool", EmptyObjectArgs) >>)) >>),
    Ok(<< Choice(Some(<< Call("ironclaw_echo", HelloArgs) >>)) >>),
    Ok(<< Choice(Some(<< Call("spin", HelloArgs) >>)) >>),
    Ok(<< Choice(Some(<< Call("crash", HelloArgs) >>)) >>),
    Ok(<< Choice(Some(<< Call("legacy", HelloArgs) >>)) >>),
    Ok(<< Choice(Some(<< Call("draft", HelloArgs) >>)) >>) }

EngineAnswers(r) == Answer(r, EngineReplies)

FairNext ==
  \/ InitBrain
  \/ LoadRegistry
  \/ Serve
  \/ \E r \in Requests : SubmitRun(r)
  \/ \E r \in Requests : EngineAnswers(r)
  \/ \E r \in Requests : Instantiate(r)
  \/ \E r \in Requests : GuestStep(r)

FairSpec ==
  /\ Init
  /\ [][FairNext]_vars
  /\ \A r \in Requests : WF_vars(Instantiate(r)) /\ WF_vars(GuestStep(r))

\* The specification for what load and lookup guarantee: tools.json is any of
\* AllCatalogSources, and the chat service names a tool that every non-empty
\* catalog registers, a tool only MainCatalog registers, an unknown tool, or
\* none.
LookupReplies ==
  { Ok(<< Choice(None) >>),
    Ok(<< Choice(Some(<< Call("ghost_tool", EmptyObjectArgs) >>)) >>),
    Ok(<< Choice(Some(<< Call("ironclaw_echo", HelloArgs) >>)) >>),
    Ok(<< Choice(Some(<< Call("crash", HelloArgs) >>)) >>) }

LoadAnyRegistry == Load(AllCatalogSources)

LookupAnswers(r) == Answer(r, LookupReplies)

CatalogNext ==
  \/ InitBrain
  \/ LoadAnyRegistry
  \/ Serve
  \/ \E r \in Requests : SubmitRun(r)
  \/ \E r \in Requests : LookupAnswers(r)
  \/ \E r \in Requests : Instantiate(r)
  \/ \E r \in Requests : GuestStep(r)

CatalogSpec == Init /\ [][CatalogNext]_vars

\* ============================================================== the claims
\* What the chat service answered to request r, read off the raw answer.
Answered(r) == req[r].reply.some
OracleFailed(r) == Answered(r) /\ ~req[r].reply.v.ok
NoChoices(r) == Answered(r) /\ req[r].reply.v.ok /\ Len(req[r].reply.v.v) = 0
HasChoice(r) == Answered(r) /\ req[r].reply.v.ok /\ Len(req[r].reply.v.v) > 0
Selected(r) ==
  /\ HasChoice(r)
  /\ req[r].reply.v.v[1].tool_calls.some
  /\ Len(req[r].reply.v.v[1].tool_calls.v) > 0
NoSelection(r) == HasChoice(r) /\ ~Selected(r)
FirstCall(r) == req[r].reply.v.v[1].tool_calls.v[1].function
InCatalog(n) == \E i \in DOMAIN registry : registry[i].name = n
Hallucinated(r) == Selected(r) /\ ~InCatalog(FirstCall(r).name)
Resolved(r) == Selected(r) /\ InCatalog(FirstCall(r).name)
\* the argument text is no JSON, or its `input` member is missing or no string
BadArguments(r) ==
  /\ Resolved(r)
  /\ \/ ~from_str(FirstCall(r).arguments).ok
     \/ Index(from_str(FirstCall(r).arguments).v, "input").type # "string"
HandlerEnded(r) == req[r].pc \in {"Responding", "Aborted"}
Responded(r) == req[r].pc = "Responding" /\ Len(req[r].responses) = 1
Tag(r) == req[r].responses[1].job_id
Status(r) == req[r].responses[1].status
Contains(status, text) == \E i \in DOMAIN status : status[i] = text

\* C1: every accepted request ends with exactly one RunResponse: never two, and
\* a handler that has ended has emitted one.
C1_ExactlyOneResponse ==
  \A r \in Requests :
    /\ Len(req[r].responses) <= 1
    /\ HandlerEnded(r) => Len(req[r].responses) = 1

\* C2: a proposal naming no catalog record is answered as err-hallucination,
\* the status carries the unresolved name, and run_tool is not called.
C2_Hallucination ==
  \A r \in Requests :
    Hallucinated(r) =>
      /\ Responded(r)
      /\ Tag(r) = "err-hallucination"
      /\ Contains(Status(r), FirstCall(r).name)
      /\ req[r].engineCalls = 0

C2_Witness ==
  \E r \in Requests :
    /\ Hallucinated(r)
    /\ FirstCall(r).name = "ghost_tool"
    /\ Responded(r)
    /\ Tag(r) = "err-hallucination"

\* C3: the capabilities offered to the planner for a request are exactly the
\* request's `tools` allow-list, and no tool outside it is run for the request.
C3_OfferedIsAllowList ==
  \A r \in Requests :
    req[r].pc # "Idle" =>
      /\ req[r].offered = { req[r].payload.tools[i].name : i \in DOMAIN req[r].payload.tools }
      /\ req[r].engineCalls > 0 =>
           \E i \in DOMAIN req[r].payload.tools :
             req[r].payload.tools[i].name = FirstCall(r).name

\* C4: a resolved proposal whose arguments cannot be mapped to the tool's input
\* ends with an argument-error response, and the engine is not invoked.
C4_ArgumentError ==
  \A r \in Requests :
    BadArguments(r) =>
      /\ req[r].engineCalls = 0
      /\ Responded(r)
      /\ Tag(r) \notin {"ai-exec-success", "ai-exec-failed", "err-hallucination",
                        "chat-only", "err-brain"}

\* C5: when the planner selects no tool the response is chat-only, and neither
\* a registry lookup nor run_tool happens.
C5_NoSelection ==
  \A r \in Requests :
    NoSelection(r) =>
      /\ Responded(r)
      /\ Tag(r) = "chat-only"
      /\ req[r].lookups = 0
      /\ req[r].engineCalls = 0

C5_Witness ==
  \E r \in Requests :
    /\ NoSelection(r)
    /\ req[r].reply.v.v[1].tool_calls.some
    /\ Responded(r)
    /\ Tag(r) = "chat-only"

\* C6: when the planner call fails the response is err-brain and the request is
\* answered at once: no registry lookup, no run_tool.
C6_OracleFailure ==
  \A r \in Requests :
    OracleFailed(r) =>
      /\ Responded(r)
      /\ Tag(r) = "err-brain"
      /\ req[r].lookups = 0
      /\ req[r].engineCalls = 0

C6_Witness ==
  \E r \in Requests :
    /\ OracleFailed(r)
    /\ req[r].reply.v.e = "transport"
    /\ Responded(r)
    /\ Tag(r) = "err-brain"

\* The outcome class of an answered request, as the claim sorts them.
Class(r) ==
  IF OracleFailed(r) THEN "oracle-failure"
  ELSE IF NoSelection(r) THEN "no-tool-needed"
  ELSE IF Hallucinated(r) THEN "hallucination"
  ELSE IF BadArguments(r) THEN "argument-error"
  ELSE IF req[r].outcome.some /\ req[r].outcome.v.ok THEN "success"
  ELSE "execution-failure"

\* C7: two requests that end in different outcome classes never carry the same
\* job_id.
C7_TagsDistinguishClasses ==
  \A r1, r2 \in Requests :
    (Responded(r1) /\ Responded(r2) /\ Class(r1) # Class(r2)) => Tag(r1) # Tag(r2)

\* The guest of request r never returns from `run`.
Spinning(r) ==
  /\ req[r].pc = "Executing"
  /\ req[r].exec.stage = "run"
  /\ Disk(req[r].exec.binary_path).kind = "loop"

\* C8: a guest that never returns makes run_tool end with an out-of-fuel
\* failure, answered as ai-exec-failed; while an invocation runs, its store's
\* fuel never grows and never goes below zero.
C8_BudgetExhaustion ==
  /\ [][\A r \in Requests :
          (req[r].pc = "Executing" /\ req[r].exec.stage = "run") =>
            /\ fuel'[StoreOf(r)] <= fuel[StoreOf(r)]
            /\ fuel'[StoreOf(r)] >= 0]_vars
  /\ \A r \in Requests :
       Spinning(r) ~> (/\ Responded(r)
                       /\ req[r].outcome = Some(Err("OutOfFuel"))
                       /\ Tag(r) = "ai-exec-failed")

C8_Witness ==
  \E r \in Requests :
    /\ Disk(req[r].exec.binary_path).kind = "loop"
    /\ Responded(r)
    /\ req[r].outcome = Some(Err("OutOfFuel"))
    /\ fuel[StoreOf(r)] = 0

\* How an invocation ended: success, or the failure's kind.
Kind(outcome) == IF outcome.ok THEN "success" ELSE outcome.e

\* C9: every invocation starts on its own store with the full fuel budget, no
\* two running invocations use one store, and two invocations of the same
\* artifact with the same input end in the same class.
C9_Hermetic ==
  /\ \A r \in Requests :
       (req[r].pc = "Executing" /\ req[r].exec.stage = "instantiate") =>
         fuel[StoreOf(r)] = FuelBudget
  /\ \A r1, r2 \in Requests :
       (r1 # r2 /\ req[r1].pc = "Executing" /\ req[r2].pc = "Executing") =>
         StoreOf(r1) # StoreOf(r2)
  /\ \A r1, r2 \in Requests :
       (/\ req[r1].outcome.some /\ req[r2].outcome.some
        /\ req[r1].exec.binary_path = req[r2].exec.binary_path
        /\ req[r1].exec.input = req[r2].exec.input) =>
         Kind(req[r1].outcome.v) = Kind(req[r2].outcome.v)

C9_Witness ==
  \E r1, r2 \in Requests :
    /\ r1 # r2
    /\ req[r1].outcome.some /\ req[r2].outcome.some
    /\ req[r1].exec.binary_path = "tools/echo.wasm"
    /\ req[r2].exec.binary_path = "tools/echo.wasm"
    /\ req[r1].exec.input = req[r2].exec.input
    /\ fuel[StoreOf(r1)] < FuelBudget
    /\ Kind(req[r2].outcome.v) = "success"

\* A per-request failure: the planner call failed or answered without choices,
\* the proposal named no tool, or the invocation failed.
Failing(r) ==
  \/ OracleFailed(r)
  \/ NoChoices(r)
  \/ Hallucinated(r)
  \/ req[r].outcome.some /\ ~req[r].outcome.v.ok

\* C10: every per-request failure becomes a response for that request, and the
\* server keeps serving.
C10_FailuresAnswered ==
  /\ (\E r \in Requests : req[r].pc # "Idle") => phase = "serving"
  /\ \A r \in Requests :
       (Failing(r) /\ req[r].pc # "Executing") =>
         /\ Responded(r)
         /\ Tag(r) \in {"err-brain", "err-hallucination", "ai-exec-failed"}

\* C11: the engine's result is surfaced as it is: Ok(output) is answered
\* ai-exec-success with the status equal to the output, an error is answered
\* ai-exec-failed with the error's text in the status, and no result is dropped.
C11_OutcomeVerbatim ==
  \A r \in Requests :
    req[r].outcome.some =>
      /\ Responded(r)
      /\ req[r].outcome.v.ok =>
           /\ Tag(r) = "ai-exec-success"
           /\ Status(r) = req[r].outcome.v.v
      /\ ~req[r].outcome.v.ok =>
           /\ Tag(r) = "ai-exec-failed"
           /\ Contains(Status(r), req[r].outcome.v.e)

C11_Witness ==
  \E r1, r2 \in Requests :
    /\ req[r1].outcome = Some(Ok(GuestRun("Hello")))
    /\ Status(r1) = << "(Guest) IronClaw processed: '", "Hello", "'" >>
    /\ req[r2].outcome = Some(Err("GuestTrap"))
    /\ Tag(r2) = "ai-exec-failed"

\* C12: within one request the planner is called exactly once, the registry is
\* looked up at most once and only after a selection, the engine is invoked at
\* most once and only after a lookup that found the tool, and after the handler
\* has ended (planner error and engine error included) nothing is called again.
C12_NoRetryInOrder ==
  /\ [](\A r \in Requests :
          /\ req[r].oracleCalls = (IF req[r].pc = "Idle" THEN 0 ELSE 1)
          /\ req[r].lookups <= 1
          /\ req[r].lookups = 1 => Selected(r)
          /\ req[r].engineCalls <= 1
          /\ req[r].engineCalls = 1 => (req[r].lookups = 1 /\ Resolved(r))
          /\ OracleFailed(r) => (req[r].lookups = 0 /\ req[r].engineCalls = 0))
  /\ [][\A r \in Requests :
          /\ req[r].pc # "Idle" => req'[r].oracleCalls = req[r].oracleCalls
          /\ req[r].pc # "Planning" =>
               (req'[r].lookups = req[r].lookups /\ req'[r].engineCalls = req[r].engineCalls)
          /\ HandlerEnded(r) => req'[r] = req[r]]_vars

C12_Witness ==
  \E r1, r2 \in Requests :
    /\ OracleFailed(r1) /\ Responded(r1) /\ req[r1].oracleCalls = 1
    /\ req[r2].outcome = Some(Err("ComponentLoad"))
    /\ req[r2].oracleCalls = 1 /\ req[r2].lookups = 1 /\ req[r2].engineCalls = 1

\* C13: once Registry::load has returned the catalog, no step changes it: in
\* every interleaving of requests the shared registry keeps its records, their
\* order and their fields, and requests resolve names against that value.
C13_CatalogImmutable ==
  /\ [][(phase \in {"registry", "serving"}) => (registry' = registry)]_vars
  /\ [](\A r \in Requests :
          req[r].pc # "Idle" =>
            /\ req[r].offered = OfferedNames(registry)
            /\ req[r].lookups = 1 => (Resolved(r) <=> req[r].engineCalls = 1))

C13_Witness ==
  \E r1, r2 \in Requests :
    /\ phase = "serving"
    /\ registry = MainCatalog
    /\ req[r1].outcome = Some(Err("OutOfFuel"))
    /\ Hallucinated(r2) /\ Responded(r2)

\* C14: in every catalog that load accepted, looking up the name of a loaded
\* record returns that very record (no record is shadowed by another of the
\* same name), and looking up a name no record carries returns nothing.
C14_LookupReturnsRecord ==
  phase \in {"registry", "serving"} =>
    /\ \A i \in DOMAIN registry : Find(registry, registry[i].name) = Some(registry[i])
    /\ \A n \in {"ghost_tool", "crash", "Ironclaw_Echo", ""} :
         ~InCatalog(n) => Find(registry, n) = None

\* the catalogs that Registry::load can return from the tools.json of Spec
Loadable == { RegistryLoad(src).v : src \in { c \in CatalogSources : RegistryLoad(c).ok } }

\* C15: a request is only ever handled while the server is serving, which it
\* does only with a catalog that load returned; the server starts serving only
\* from the state a successful load leaves; a failed load ends the process,
\* which then never serves and never handles a request.
C15_ServeAfterLoad ==
  /\ [](\A r \in Requests :
          req[r].pc # "Idle" => (phase = "serving" /\ registry \in Loadable))
  /\ [](phase \in {"registry", "serving"} => registry \in Loadable)
  /\ [][(phase' = "serving") => (phase \in {"registry", "serving"})]_vars
  /\ [][(phase = "brain" /\ phase' # "brain") =>
          (IF registry' \in Loadable THEN phase' = "registry" ELSE phase' = "exited")]_vars
  /\ [][(phase = "exited") =>
          (phase' = "exited" /\ \A r \in Requests : req'[r].pc = "Idle")]_vars

C15_Witness ==
  /\ phase = "serving"
  /\ registry = MainCatalog
  /\ \E r \in Requests : Responded(r) /\ Tag(r) = "ai-exec-success"

\* the record lists that parse out of the tools.json of Spec
ParsedCatalogs ==
  { src.parsed.v : src \in { c \in CatalogSources : c.readable /\ c.parsed.ok } }

\* the tool call of request r names a record of tools.json whose binary is not
\* on disk
NamesUndeployed(r) ==
  /\ Selected(r)
  /\ \E cat \in ParsedCatalogs : \E i \in DOMAIN cat :
       /\ cat[i].name = FirstCall(r).name
       /\ ~Disk(cat[i].binary_path).exists

\* C16: load keeps every parsed record, in source order, also the records whose
\* binary is missing; a tool call naming such a record resolves (it is no
\* hallucination), run_tool is called once for it, and the request ends as
\* ai-exec-failed with the component-load error.
C16_MissingArtifactStillLoaded ==
  /\ phase \in {"registry", "serving"} => registry \in ParsedCatalogs
  /\ \A r \in Requests :
       NamesUndeployed(r) =>
         /\ Find(registry, FirstCall(r).name).some
         /\ req[r].lookups = 1
         /\ req[r].engineCalls = 1
         /\ req[r].outcome = Some(Err("ComponentLoad"))
         /\ Responded(r)
         /\ Tag(r) = "ai-exec-failed"
         /\ Contains(Status(r), "ComponentLoad")

C16_Witness ==
  \E r1, r2 \in Requests :
    /\ NamesUndeployed(r1)
    /\ FirstCall(r1).name = "draft"
    /\ Responded(r1)
    /\ Tag(r1) = "ai-exec-failed"
    /\ req[r1].outcome = Some(Err("ComponentLoad"))
    /\ Responded(r2)
    /\ Tag(r2) = "ai-exec-success"

\* the catalog record that the tool call of request r resolves to
Record(r) == Find(registry, FirstCall(r).name).v

\* C17: for a resolved tool call whose component loads, the function invoked
\* is the handler of the record, with the extracted input as its argument; and
\* when the component does not export that handler the request ends with the
\* instantiation error and nothing is invoked.
C17_DeclaredEntryPoint ==
  \A r \in Requests :
    (Resolved(r) /\ req[r].engineCalls = 1 /\ Disk(Record(r).binary_path).exists) =>
      /\ req[r].exec.input = InputVal(FirstCall(r).arguments)
      /\ req[r].exec.entry # "" => req[r].exec.entry = Record(r).handler
      /\ Record(r).handler \notin Disk(Record(r).binary_path).exports =>
           /\ req[r].exec.entry = ""
           /\ HandlerEnded(r) => req[r].outcome = Some(Err("Instantiate"))

\* the answer to request r cannot be read as zero-or-one tool call: it has no
\* choice at all, or it failed to deserialize (a tool call without a name or
\* without an argument string does not deserialize)
Malformed(r) ==
  \/ NoChoices(r)
  \/ (Answered(r) /\ req[r].reply.v = Err("deserialize"))

\* C18: a malformed answer is reported to the caller as err-brain; no tool call
\* is made up for it, so neither the lookup nor run_tool happens.
C18_MalformedIsOracleFailure ==
  \A r \in Requests :
    Malformed(r) =>
      /\ req[r].plan = None
      /\ req[r].lookups = 0
      /\ req[r].engineCalls = 0
      /\ Responded(r)
      /\ Tag(r) = "err-brain"

\* the number of tool calls in the answer to request r
Selections(r) == Len(req[r].reply.v.v[1].tool_calls.v)

\* C19: whatever number of tool calls the answer carries, the proposal is the
\* first call's name and arguments, there is one lookup and at most one
\* run_tool call, on that record and that input; two requests whose answers
\* agree on the first call get the same response, whatever follows it.
C19_FirstSelectionOnly ==
  /\ \A r \in Requests :
       Selected(r) =>
         /\ req[r].plan = Some([name |-> FirstCall(r).name,
                                arguments |-> FirstCall(r).arguments])
         /\ req[r].lookups = 1
         /\ req[r].engineCalls <= 1
         /\ req[r].engineCalls = 1 =>
              /\ Resolved(r)
              /\ req[r].exec.binary_path = Record(r).binary_path
              /\ req[r].exec.input = InputVal(FirstCall(r).arguments)
  /\ \A r1, r2 \in Requests :
       (Selected(r1) /\ Selected(r2) /\ FirstCall(r1) = FirstCall(r2)
          /\ Responded(r1) /\ Responded(r2)) =>
         /\ req[r1].responses = req[r2].responses
         /\ req[r1].outcome = req[r2].outcome

C19_Witness ==
  \E r1, r2 \in Requests :
    /\ Selected(r1) /\ Selections(r1) = 2
    /\ Selected(r2) /\ Selections(r2) = 1
    /\ FirstCall(r1) = FirstCall(r2)
    /\ Responded(r1) /\ Responded(r2)
    /\ Tag(r1) = "ai-exec-success"
    /\ Status(r1) = GuestRun("Hello")

\* What one request gets when it is the only one the server handles: the
\* outcome of run_tool on a store of its own, and the responses of the handler.
SoloOutcome(binary_path, input_val) ==
  LET art == Disk(binary_path) IN
  IF ~art.exists THEN Err("ComponentLoad")
  ELSE IF EntryPoint \notin art.exports THEN Err("Instantiate")
  ELSE IF art.kind = "loop" \/ art.work > FuelBudget THEN Err("OutOfFuel")
  ELSE IF art.kind = "abort" THEN Err("GuestTrap")
  ELSE Ok(GuestRun(input_val))

SoloResponses(reply) ==
  LET p == Plan(reply) IN
  IF p.tag = "Panic" THEN << >>
  ELSE IF p.tag = "Err" THEN << BrainErrorResponse >>
  ELSE IF ~p.v.some THEN << ChatOnlyResponse >>
  ELSE LET found == Find(registry, FunctionName(p.v.v))
           out == SoloOutcome(found.v.binary_path, InputVal(ArgumentsStr(p.v.v)))
       IN
       IF ~found.some THEN << HallucinationResponse(FunctionName(p.v.v)) >>
       ELSE IF out.ok THEN << SuccessResponse(out.v) >>
       ELSE << FailedResponse(out.e) >>

\* request r is in flight: accepted, its handler not yet ended
InFlight(r) == req[r].pc \in {"Planning", "Executing"}

\* C20: whatever the other requests do meanwhile, a request whose handler has
\* ended got what it gets when served alone with the same answer; and a step
\* of one request changes neither another request's record (proposal, outcome,
\* responses) nor the fuel of another request's store.
C20_Independent ==
  /\ [](\A r \in Requests :
          HandlerEnded(r) => req[r].responses = SoloResponses(req[r].reply.v))
  /\ [][\A r \in Requests :
          req'[r] # req[r] =>
            \A q \in Requests \ {r} :
              /\ req'[q] = req[q]
              /\ fuel'[StoreOf(q)] = fuel[StoreOf(q)]]_vars

\* one request has completed while another, that exhausts its budget, is
\* still running, and a third party's failure left the first one's success
\* untouched
C20_Witness ==
  \E r, q \in Requests :
    /\ r # q
    /\ Responded(r)
    /\ Tag(r) = "ai-exec-success"
    /\ InFlight(q)
    /\ req[q].exec.stage = "run"
    /\ Disk(req[q].exec.binary_path).kind = "loop"
    /\ fuel[StoreOf(q)] < FuelBudget

====
